---- MODULE Spec2Model ----
(***************************************************************************)
(* Relinky: the unused-class pruner (tools/prune_css.py) and the CSS       *)
(* organizer (css_analyzer.py).                                            *)
(*                                                                         *)
(* Text is modelled as a sequence of one-character strings.  Indices into  *)
(* text are 0-based as in the Python source; At(s, i) reads s[i].          *)
(***************************************************************************)
EXTENDS Integers, Sequences, FiniteSets, TLC

VARIABLES
    \* ---- split_selectors run on its own (prune_css.py 59-97)
    sp_prelude,     \* the prelude being split
    sp,             \* the loop's locals: i, buf, parts, depths, in_str
    sp_pc,          \* "loop" | "done"
    sp_result,      \* the returned list
    \* ---- the pruner script (prune_css.py 19-183)
    used_classes,   \* the UsedClassSet, a set of class names
    css_text,       \* the stylesheet as read
    css_nocomments, \* the stylesheet with comments blanked
    i,              \* the scan position of the segmentation loop
    out,            \* the emitted fragments
    removed_rules,  \* the removed_details records
    kept_count,
    removed_count,
    pc,             \* "idle" | "loop" | "write" | "done"
    pruned_css,     \* the text written to PRUNED_PATH
    report,         \* the object written to REPORT_PATH
    \* ---- history of the segmentation loop, read only by the properties
    out_src,        \* for each fragment of out, the source index of each character
    rules,          \* the rules segmented: span, selectors, verdict
    at_rules,       \* the at-rules met: start, end of header
    tail_from,      \* the start of the remainder passed through at line 134, or -1
    \* ---- the organizer (css_analyzer.py 121-144)
    org_input,      \* the style block before the first run
    org_css,        \* the text between <style> and </style> in the file
    org_out,        \* organized_css of the last run
    org_runs        \* how many times organize_css_file has run (-1: not in use)

split_vars == <<sp_prelude, sp, sp_pc, sp_result>>
prune_vars == <<used_classes, css_text, css_nocomments, i, out, removed_rules,
                kept_count, removed_count, pc, pruned_css, report,
                out_src, rules, at_rules, tail_from>>
org_vars == <<org_input, org_css, org_out, org_runs>>
vars == <<split_vars, prune_vars, org_vars>>

(***************************************************************************)
(* Characters and strings                                                  *)
(***************************************************************************)

\* The printable ASCII characters in code-point order, 32 (space) to 126
\* (code 96 is never used and has a placeholder).
Ascii ==
    << " ", "!", "\"", "#", "$", "%", "&", "'", "(", ")", "*", "+", ",", "-",
       ".", "/", "0", "1", "2", "3", "4", "5", "6", "7", "8", "9", ":", ";",
       "<", "=", ">", "?", "@", "A", "B", "C", "D", "E", "F", "G", "H", "I",
       "J", "K", "L", "M", "N", "O", "P", "Q", "R", "S", "T", "U", "V", "W",
       "X", "Y", "Z", "[", "\\", "]", "^", "_", "(96)", "a", "b", "c", "d", "e",
       "f", "g", "h", "i", "j", "k", "l", "m", "n", "o", "p", "q", "r", "s",
       "t", "u", "v", "w", "x", "y", "z", "{", "|", "}", "~" >>

Char == {Ascii[k] : k \in DOMAIN Ascii} \cup {"\t", "\n"}

\* ord(c)
CharCode ==
    [c \in Char |->
        IF c = "\t" THEN 9
        ELSE IF c = "\n" THEN 10
        ELSE 31 + (CHOOSE k \in DOMAIN Ascii : Ascii[k] = c)]

Lower == {"a", "b", "c", "d", "e", "f", "g", "h", "i", "j", "k", "l", "m",
          "n", "o", "p", "q", "r", "s", "t", "u", "v", "w", "x", "y", "z"}
Upper == {"A", "B", "C", "D", "E", "F", "G", "H", "I", "J", "K", "L", "M",
          "N", "O", "P", "Q", "R", "S", "T", "U", "V", "W", "X", "Y", "Z"}
Digit == {"0", "1", "2", "3", "4", "5", "6", "7", "8", "9"}

\* str.isspace() / the regex class \s, over the characters of the model
IsSpace(c) == c \in {" ", "\t", "\n"}

\* s[i], 0-based
At(s, idx) == s[idx + 1]

\* s[a:b], 0-based, half-open, clipped as Python clips a slice
Slice(s, a, b) ==
    LET hi == IF b > Len(s) THEN Len(s) ELSE b
    IN  IF a >= hi THEN << >> ELSE SubSeq(s, a + 1, hi)

RECURSIVE LStrip(_)
LStrip(s) == IF s # << >> /\ IsSpace(Head(s)) THEN LStrip(Tail(s)) ELSE s

RECURSIVE RStrip(_)
RStrip(s) ==
    IF s # << >> /\ IsSpace(s[Len(s)]) THEN RStrip(SubSeq(s, 1, Len(s) - 1)) ELSE s

\* str.strip()
Strip(s) == RStrip(LStrip(s))

\* ''.join(list of strings)
RECURSIVE Join(_)
Join(frags) == IF frags = << >> THEN << >> ELSE Head(frags) \o Join(Tail(frags))

\* All texts over an alphabet of length at most size
RECURSIVE TextsUpTo(_, _)
TextsUpTo(alphabet, size) ==
    IF size = 0 THEN {<< >>}
    ELSE LET shorter == TextsUpTo(alphabet, size - 1)
         IN  shorter \cup {Append(t, c) : t \in shorter, c \in alphabet}

(***************************************************************************)
(* split_selectors (prune_css.py 59-97)                                    *)
(***************************************************************************)

NoStr == "None"

\* line 89 with the depth test dropped for brackets
IsSplitPointNoBracket(ch, depth_paren, depth_bracket) ==
    ch = "," /\ depth_paren = 0

\* line 89: the comma that ends a selector
IsSplitPoint(ch, depth_paren, depth_bracket) ==
    ch = "," /\ depth_paren = 0 /\ depth_bracket = 0

\* lines 60-63: the locals before the loop
SplitStart ==
    [parts |-> << >>, buf |-> << >>, depth_paren |-> 0, depth_bracket |-> 0,
     in_str |-> NoStr, i |-> 0]

\* lines 65-94: one iteration of the while loop, entered with s.i < len(prelude)
SplitStep(prelude, s) ==
    LET ch == At(prelude, s.i) IN
    IF s.in_str # NoStr THEN
        \* lines 66-75
        LET esc  == ch # s.in_str /\ ch = "\\"
            i1   == IF esc THEN s.i + 1 ELSE s.i
            buf1 == Append(s.buf, ch)
            buf2 == IF esc /\ i1 < Len(prelude)
                    THEN Append(buf1, At(prelude, i1)) ELSE buf1
        IN  [s EXCEPT !.buf = buf2,
                      !.in_str = IF ch = s.in_str THEN NoStr ELSE s.in_str,
                      !.i = i1 + 1]
    ELSE IF ch \in {"\"", "'"} THEN
        \* lines 76-80
        [s EXCEPT !.in_str = ch, !.buf = Append(s.buf, ch), !.i = s.i + 1]
    ELSE
        \* lines 81-94
        LET dp == IF ch = "(" THEN s.depth_paren + 1
                  ELSE IF ch = ")" THEN (IF s.depth_paren - 1 > 0 THEN s.depth_paren - 1 ELSE 0)
                  ELSE s.depth_paren
            db == IF ch = "[" THEN s.depth_bracket + 1
                  ELSE IF ch = "]" THEN (IF s.depth_bracket - 1 > 0 THEN s.depth_bracket - 1 ELSE 0)
                  ELSE s.depth_bracket
        IN  IF IsSplitPoint(ch, dp, db)
            THEN [s EXCEPT !.parts = Append(s.parts, Strip(s.buf)), !.buf = << >>,
                           !.depth_paren = dp, !.depth_bracket = db, !.i = s.i + 1]
            ELSE [s EXCEPT !.buf = Append(s.buf, ch),
                           !.depth_paren = dp, !.depth_bracket = db, !.i = s.i + 1]

\* lines 95-97: the trailing buffer, then the non-empty parts
SplitFinish(s) ==
    LET parts == IF s.buf # << >> THEN Append(s.parts, Strip(s.buf)) ELSE s.parts
    IN  SelectSeq(parts, LAMBDA p : p # << >>)

RECURSIVE SplitRun(_, _)
SplitRun(prelude, s) ==
    IF s.i < Len(prelude) THEN SplitRun(prelude, SplitStep(prelude, s)) ELSE SplitFinish(s)

\* split_selectors(prelude)
split_selectors(prelude) == SplitRun(prelude, SplitStart)

(***************************************************************************)
(* split_selectors as a state machine: one step per loop iteration         *)
(***************************************************************************)

MaxPreludeLen == 4

SplitAlphabet == {"a", ",", " ", "(", ")", "[", "]", "\"", "'", "\\"}

\* the preludes of the specification's examples
PreludeABC == << "a", ",", " ", "b", ",", " ", "c" >>
PreludeNot == << ":", "n", "o", "t", "(", "a", ",", " ", "b", ")", ",", " ", "c" >>
PreludeAttr == << "a", "[", "h", "r", "e", "f", "=", "\"", ",", "\"", "]", ",", " ", "b" >>
PreludeEsc == << "[", "'", "\\", "'", ",", "'", "]", ",", "a" >>

SplitSamples == {PreludeABC, PreludeNot, PreludeAttr, PreludeEsc}

Preludes == TextsUpTo(SplitAlphabet, MaxPreludeLen) \cup SplitSamples

SplitIdle ==
    /\ sp_prelude = << >>
    /\ sp = SplitStart
    /\ sp_pc = "idle"
    /\ sp_result = << >>

SplitBegin ==
    /\ sp_prelude \in Preludes
    /\ sp = SplitStart
    /\ sp_pc = "loop"
    /\ sp_result = << >>

\* lines 64-94
SplitIterate ==
    /\ sp_pc = "loop"
    /\ sp.i < Len(sp_prelude)
    /\ sp' = SplitStep(sp_prelude, sp)
    /\ UNCHANGED <<sp_prelude, sp_pc, sp_result>>
    /\ UNCHANGED <<prune_vars, org_vars>>

\* lines 95-97
SplitReturn ==
    /\ sp_pc = "loop"
    /\ ~(sp.i < Len(sp_prelude))
    /\ sp_result' = SplitFinish(sp)
    /\ sp_pc' = "done"
    /\ UNCHANGED <<sp_prelude, sp>>
    /\ UNCHANGED <<prune_vars, org_vars>>

SplitNext == SplitIterate \/ SplitReturn

(***************************************************************************)
(* The pruner: comment blanking and the class-token pattern                *)
(***************************************************************************)

\* the first q >= p with text[q:q+2] = "*/", or -1
RECURSIVE CommentClose(_, _)
CommentClose(text, p) ==
    IF p + 1 >= Len(text) THEN -1
    ELSE IF At(text, p) = "*" /\ At(text, p + 1) = "/" THEN p
    ELSE CommentClose(text, p + 1)

\* lines 54-55 from position p on: every match of /\*[\s\S]*?\*/ becomes
\* as many spaces
RECURSIVE BlankFrom(_, _)
BlankFrom(text, p) ==
    IF p >= Len(text) THEN << >>
    ELSE LET q == IF p + 1 < Len(text) /\ At(text, p) = "/" /\ At(text, p + 1) = "*"
                  THEN CommentClose(text, p + 2) ELSE -1
         IN  IF q < 0 THEN << At(text, p) >> \o BlankFrom(text, p + 1)
             ELSE [k \in 1..(q + 2 - p) |-> " "] \o BlankFrom(text, q + 2)

\* line 55
BlankComments(text) == BlankFrom(text, 0)

\* [_a-zA-Z]
IsNameStart(c) == c = "_" \/ c \in Lower \/ c \in Upper

\* [_a-zA-Z0-9-]
IsNameChar(c) == IsNameStart(c) \/ c \in Digit \/ c = "-"

\* the end of the longest run of [_a-zA-Z0-9-] from p
RECURSIVE NameEnd(_, _)
NameEnd(sel, p) ==
    IF p < Len(sel) /\ IsNameChar(At(sel, p)) THEN NameEnd(sel, p + 1) ELSE p

\* line 57: where a match of class_in_sel_re starting at p ends, or -1
ClassMatchEnd(sel, p) ==
    IF At(sel, p) # "." THEN -1
    ELSE LET start == IF p + 1 < Len(sel) /\ At(sel, p + 1) = "-" THEN p + 2 ELSE p + 1
         IN  IF start < Len(sel) /\ IsNameStart(At(sel, start))
             THEN NameEnd(sel, start) ELSE -1

\* class_in_sel_re.findall(sel) from position p on
RECURSIVE FindTokensFrom(_, _)
FindTokensFrom(sel, p) ==
    IF p >= Len(sel) THEN << >>
    ELSE LET e == ClassMatchEnd(sel, p)
         IN  IF e < 0 THEN FindTokensFrom(sel, p + 1)
             ELSE << Slice(sel, p + 1, e) >> \o FindTokensFrom(sel, e)

\* line 155
FindClassTokens(sel) == FindTokensFrom(sel, 0)

\* str < str, by code point
RECURSIVE StrLess(_, _)
StrLess(a, b) ==
    IF b = << >> THEN FALSE
    ELSE IF a = << >> THEN TRUE
    ELSE IF Head(a) # Head(b) THEN CharCode[Head(a)] < CharCode[Head(b)]
    ELSE StrLess(Tail(a), Tail(b))

\* sorted(S) for a set of strings
RECURSIVE SortedSeq(_)
SortedSeq(S) ==
    IF S = {} THEN << >>
    ELSE LET m == CHOOSE x \in S : \A y \in S \ {x} : StrLess(x, y)
         IN  << m >> \o SortedSeq(S \ {m})

Range(f) == {f[k] : k \in DOMAIN f}

\* line 169 without sorted(set(...))
RawTokens(class_tokens) == class_tokens

\* line 169: sorted(set(class_tokens))
SortedTokens(class_tokens) == SortedSeq(Range(class_tokens))

\* lines 151-160: the loop over the selectors
RECURSIVE ScanSelectors(_, _)
ScanSelectors(selectors, acc) ==
    IF selectors = << >> THEN acc
    ELSE LET tokens == FindClassTokens(Head(selectors))
         IN  ScanSelectors(Tail(selectors),
                IF tokens # << >>
                THEN [any_class |-> TRUE,
                      class_tokens |-> acc.class_tokens \o tokens,
                      any_used |-> acc.any_used
                                   \/ \E k \in DOMAIN tokens : tokens[k] \in used_classes]
                ELSE acc)

\* the verdict with the no-class case forgotten
KeepOnlyUsed(any_class, any_used) == any_used

\* lines 161-170: the verdict
Keep(any_class, any_used) == (~any_class) \/ any_used

(***************************************************************************)
(* The pruner: the segmentation loop (prune_css.py 102-171)                *)
(***************************************************************************)

n == Len(css_nocomments)

\* a..b-1 as a sequence
Indices(a, b) == IF b > a THEN [k \in 1..(b - a) |-> a + k - 1] ELSE << >>

\* lines 117-118
RECURSIVE ScanAtRule(_)
ScanAtRule(j) ==
    IF j < n /\ At(css_nocomments, j) \notin {"{", ";"} THEN ScanAtRule(j + 1) ELSE j

\* lines 131-132
RECURSIVE ScanPrelude(_)
ScanPrelude(j) ==
    IF j < n /\ At(css_nocomments, j) # "{" THEN ScanPrelude(j + 1) ELSE j

\* lines 141-146
RECURSIVE ScanBody(_, _)
ScanBody(k, depth) ==
    IF k < n /\ depth > 0
    THEN ScanBody(k + 1, IF At(css_nocomments, k) = "{" THEN depth + 1
                         ELSE IF At(css_nocomments, k) = "}" THEN depth - 1
                         ELSE depth)
    ELSE [k |-> k, depth |-> depth]

\* line 112 reading the blanked text
WhitespaceFragmentBlanked(p) == << At(css_nocomments, p) >>

\* line 112: the character the whitespace branch emits
WhitespaceFragment(p) == << At(css_text, p) >>

\* line 134 reading the blanked text
TailFragmentBlanked(p) == Slice(css_nocomments, p, Len(css_nocomments))

\* line 134: the remainder emitted when no "{" follows
TailFragment(p) == Slice(css_text, p, Len(css_text))

\* lines 119-128 with the end-of-input case (127-128) resuming at j + 1 too
AtRuleResumePast(j) == j + 1

\* lines 119-128: where the scan resumes after an at-rule whose scan stopped at j
AtRuleResume(j) == IF j < n THEN j + 1 ELSE j

PruneIdle ==
    /\ used_classes = {}
    /\ css_text = << >>
    /\ css_nocomments = << >>
    /\ i = 0
    /\ out = << >>
    /\ removed_rules = << >>
    /\ kept_count = 0
    /\ removed_count = 0
    /\ pc = "idle"
    /\ pruned_css = << >>
    /\ report = << >>
    /\ out_src = << >>
    /\ rules = << >>
    /\ at_rules = << >>
    /\ tail_from = -1

\* lines 107-110
StrayBrace ==
    /\ pc = "loop" /\ i < n
    /\ At(css_nocomments, i) = "}"
    /\ out' = Append(out, << "}" >>)
    /\ out_src' = Append(out_src, << i >>)
    /\ i' = i + 1
    /\ UNCHANGED <<used_classes, css_text, css_nocomments, removed_rules, kept_count,
                   removed_count, pc, pruned_css, report, rules, at_rules, tail_from>>
    /\ UNCHANGED <<split_vars, org_vars>>

\* lines 111-114
Whitespace ==
    /\ pc = "loop" /\ i < n
    /\ At(css_nocomments, i) # "}"
    /\ IsSpace(At(css_nocomments, i))
    /\ out' = Append(out, WhitespaceFragment(i))
    /\ out_src' = Append(out_src, << i >>)
    /\ i' = i + 1
    /\ UNCHANGED <<used_classes, css_text, css_nocomments, removed_rules, kept_count,
                   removed_count, pc, pruned_css, report, rules, at_rules, tail_from>>
    /\ UNCHANGED <<split_vars, org_vars>>

\* lines 115-129
AtRule ==
    /\ pc = "loop" /\ i < n
    /\ At(css_nocomments, i) = "@"
    /\ LET j == ScanAtRule(i)
           stop == AtRuleResume(j)
       IN  /\ out' = Append(out, Slice(css_text, i, stop))
           /\ out_src' = Append(out_src, Indices(i, stop))
           /\ at_rules' = Append(at_rules, [from |-> i, stop |-> j])
           /\ i' = stop
    /\ UNCHANGED <<used_classes, css_text, css_nocomments, removed_rules, kept_count,
                   removed_count, pc, pruned_css, report, rules, tail_from>>
    /\ UNCHANGED <<split_vars, org_vars>>

\* lines 130-135: no "{" before the end of input
RuleUnterminated ==
    /\ pc = "loop" /\ i < n
    /\ At(css_nocomments, i) \notin {"}", "@"}
    /\ ~IsSpace(At(css_nocomments, i))
    /\ ScanPrelude(i) >= n
    /\ out' = Append(out, TailFragment(i))
    /\ out_src' = Append(out_src, Indices(i, i + Len(TailFragment(i))))
    /\ tail_from' = i
    /\ pc' = "write"
    /\ UNCHANGED <<used_classes, css_text, css_nocomments, i, removed_rules, kept_count,
                   removed_count, pruned_css, report, rules, at_rules>>
    /\ UNCHANGED <<split_vars, org_vars>>

\* lines 130-171: a rule, kept or removed
Rule ==
    /\ pc = "loop" /\ i < n
    /\ At(css_nocomments, i) \notin {"}", "@"}
    /\ ~IsSpace(At(css_nocomments, i))
    /\ ScanPrelude(i) < n
    /\ LET j == ScanPrelude(i)
           prelude_src == Slice(css_text, i, j)
           lead == Len(prelude_src) - Len(LStrip(prelude_src))
           prelude_ws == Slice(prelude_src, 0, lead)
           prelude == Strip(prelude_src)
           end == ScanBody(j + 1, 1)
           block_end == end.k
           body == Slice(css_text, j, block_end)
           selectors == split_selectors(prelude)
           scan == ScanSelectors(selectors,
                      [any_class |-> FALSE, any_used |-> FALSE, class_tokens |-> << >>])
           keep == Keep(scan.any_class, scan.any_used)
       IN  /\ IF keep
              THEN /\ out' = Append(out, prelude_ws \o prelude \o body)
                   /\ out_src' = Append(out_src,
                                    Indices(i, i + lead + Len(prelude)) \o Indices(j, block_end))
                   /\ kept_count' = kept_count + 1
                   /\ UNCHANGED <<removed_rules, removed_count>>
              ELSE /\ removed_rules' = Append(removed_rules,
                                          [selectors |-> selectors,
                                           class_tokens |-> SortedTokens(scan.class_tokens)])
                   /\ removed_count' = removed_count + 1
                   /\ UNCHANGED <<out, out_src, kept_count>>
           /\ rules' = Append(rules, [from |-> i, brace |-> j, to |-> block_end,
                                      closed |-> end.depth = 0,
                                      selectors |-> selectors, kept |-> keep])
           /\ i' = block_end
    /\ UNCHANGED <<used_classes, css_text, css_nocomments, pc, pruned_css, report,
                   at_rules, tail_from>>
    /\ UNCHANGED <<split_vars, org_vars>>

\* lines 173-183
WriteReport ==
    /\ pc = "write" \/ (pc = "loop" /\ ~(i < n))
    /\ pruned_css' = Join(out)
    /\ report' = [kept_rules |-> kept_count,
                  removed_rules |-> removed_count,
                  removed_details |-> removed_rules,
                  used_classes_count |-> Cardinality(used_classes),
                  pruned_bytes |-> Len(Join(out)),
                  original_bytes |-> Len(css_text),
                  bytes_saved_estimate |-> Len(css_text) - Len(Join(out))]
    /\ pc' = "done"
    /\ UNCHANGED <<used_classes, css_text, css_nocomments, i, out, removed_rules,
                   kept_count, removed_count, out_src, rules, at_rules, tail_from>>
    /\ UNCHANGED <<split_vars, org_vars>>

PruneNext == StrayBrace \/ Whitespace \/ AtRule \/ RuleUnterminated \/ Rule \/ WriteReport

(***************************************************************************)
(* The pruner's inputs                                                     *)
(***************************************************************************)

MaxLen == 4

PruneAlphabet == {".", "a", ",", "{", "}", " ", "@", ";"}

ClassA == << "a" >>
ClassBtn == << "b", "t", "n" >>

\* ".btn{color:red}.old{color:blue}"
CssBtnOld ==
    << ".", "b", "t", "n", "{", "c", "o", "l", "o", "r", ":", "r", "e", "d", "}",
       ".", "o", "l", "d", "{", "c", "o", "l", "o", "r", ":", "b", "l", "u", "e", "}" >>
\* ".btn, .old{color:red}"
CssMixed ==
    << ".", "b", "t", "n", ",", " ", ".", "o", "l", "d",
       "{", "c", "o", "l", "o", "r", ":", "r", "e", "d", "}" >>
\* "#header{x:y}"
CssHeader == << "#", "h", "e", "a", "d", "e", "r", "{", "x", ":", "y", "}" >>
\* ".btn {x:y}"
CssSpaced == << ".", "b", "t", "n", " ", "{", "x", ":", "y", "}" >>
\* "/*c*/.old{}/*.a{}*/ .a{}"
CssComments ==
    << "/", "*", "c", "*", "/", ".", "o", "l", "d", "{", "}",
       "/", "*", ".", "a", "{", "}", "*", "/", " ", ".", "a", "{", "}" >>
\* "@font-face { font-family: x; }.old{color:blue}"
CssFontFace ==
    << "@", "f", "o", "n", "t", "-", "f", "a", "c", "e", " ", "{", " ",
       "f", "o", "n", "t", "-", "f", "a", "m", "i", "l", "y", ":", " ", "x", ";", " ", "}",
       ".", "o", "l", "d", "{", "c", "o", "l", "o", "r", ":", "b", "l", "u", "e", "}" >>
\* "@media (x){.old{}.btn{}}"
CssMedia ==
    << "@", "m", "e", "d", "i", "a", " ", "(", "x", ")", "{",
       ".", "o", "l", "d", "{", "}", ".", "b", "t", "n", "{", "}", "}" >>
\* "@import 'x';.old{}"
CssImport ==
    << "@", "i", "m", "p", "o", "r", "t", " ", "'", "x", "'", ";",
       ".", "o", "l", "d", "{", "}" >>
\* ".a{}b/*{*/c"
CssTail == << ".", "a", "{", "}", "b", "/", "*", "{", "*", "/", "c" >>
\* ".old.x.old, .-b1{}"
CssDup ==
    << ".", "o", "l", "d", ".", "x", ".", "o", "l", "d", ",", " ", ".", "-", "b", "1",
       "{", "}" >>
\* ".old{color:blue"
CssOpenBody == << ".", "o", "l", "d", "{", "c", "o", "l", "o", "r", ":", "b", "l", "u", "e" >>

PruneSamples ==
    {CssBtnOld, CssMixed, CssHeader, CssSpaced, CssComments, CssFontFace, CssMedia,
     CssImport, CssTail, CssDup, CssOpenBody}

Stylesheets == TextsUpTo(PruneAlphabet, MaxLen) \cup PruneSamples

UsedClassSets == SUBSET {ClassA, ClassBtn}

\* lines 19-55 and 99-104: the state when the loop is entered
PruneBegin ==
    /\ used_classes \in UsedClassSets
    /\ css_text \in Stylesheets
    /\ css_nocomments = BlankComments(css_text)
    /\ i = 0
    /\ out = << >>
    /\ removed_rules = << >>
    /\ kept_count = 0
    /\ removed_count = 0
    /\ pc = "loop"
    /\ pruned_css = << >>
    /\ report = << >>
    /\ out_src = << >>
    /\ rules = << >>
    /\ at_rules = << >>
    /\ tail_from = -1

(***************************************************************************)
(* The organizer (css_analyzer.py)                                         *)
(***************************************************************************)

\* the first q >= p with text[q] = c, or -1
RECURSIVE IndexOf(_, _, _)
IndexOf(text, c, p) ==
    IF p >= Len(text) THEN -1
    ELSE IF At(text, p) = c THEN p
    ELSE IndexOf(text, c, p + 1)

\* the end of the run of whitespace from p
RECURSIVE SkipSpace(_, _)
SkipSpace(text, p) ==
    IF p < Len(text) /\ IsSpace(At(text, p)) THEN SkipSpace(text, p + 1) ELSE p

\* the end of the longest run of [a-zA-Z0-9_-] from p
RECURSIVE WordEnd(_, _)
WordEnd(text, p) ==
    IF p < Len(text) /\ IsNameChar(At(text, p)) THEN WordEnd(text, p + 1) ELSE p

\* sub in text
Contains(text, sub) ==
    \E p \in 0..(Len(text) - Len(sub)) : Slice(text, p, p + Len(sub)) = sub

\* str.split(c)
RECURSIVE SplitOn(_, _)
SplitOn(text, c) ==
    LET q == IndexOf(text, c, 0)
    IN  IF q < 0 THEN << text >>
        ELSE << Slice(text, 0, q) >> \o SplitOn(Slice(text, q + 1, Len(text)), c)

\* sorted(list of strings), duplicates kept
RECURSIVE Insert(_, _)
Insert(sorted, x) ==
    IF sorted = << >> THEN << x >>
    ELSE IF StrLess(x, Head(sorted)) THEN << x >> \o sorted
    ELSE << Head(sorted) >> \o Insert(Tail(sorted), x)

RECURSIVE SortedList(_)
SortedList(list) ==
    IF list = << >> THEN << >> ELSE Insert(SortedList(Tail(list)), Head(list))

\* str.upper() on the lower-case letters
LowerLetters ==
    << "a", "b", "c", "d", "e", "f", "g", "h", "i", "j", "k", "l", "m",
       "n", "o", "p", "q", "r", "s", "t", "u", "v", "w", "x", "y", "z" >>
UpperLetters ==
    << "A", "B", "C", "D", "E", "F", "G", "H", "I", "J", "K", "L", "M",
       "N", "O", "P", "Q", "R", "S", "T", "U", "V", "W", "X", "Y", "Z" >>
ToUpper(text) ==
    [k \in DOMAIN text |->
        IF text[k] \in Lower
        THEN UpperLetters[CHOOSE x \in DOMAIN LowerLetters : LowerLetters[x] = text[k]]
        ELSE text[k]]

\* lines 7-22, the first extract_css_rules: the matches of
\* ([^{]+)\s*{\s*([^}]+)\s*} from p on, as <<selector, declarations>> pairs
RECURSIVE FindAllRules(_, _)
FindAllRules(text, p) ==
    IF p >= Len(text) THEN << >>
    ELSE IF At(text, p) = "{" THEN FindAllRules(text, p + 1)
    ELSE LET b == IndexOf(text, "{", p)
             e == IF b < 0 THEN -1 ELSE IndexOf(text, "}", b + 1)
         IN  IF b < 0 THEN << >>
             ELSE IF e < 0 \/ e = b + 1 THEN FindAllRules(text, b + 1)
             ELSE LET pieces == SplitOn(Slice(text, b + 1, e), ";")
                      decls == SelectSeq([k \in DOMAIN pieces |-> Strip(pieces[k])],
                                         LAMBDA d : d # << >>)
                  IN  << << Strip(Slice(text, p, b)), decls >> >> \o FindAllRules(text, e + 1)

\* lines 12-22: rules_dict[selector].extend(declarations), as a function
RECURSIVE AccumulateRules(_, _)
AccumulateRules(found, dict) ==
    IF found = << >> THEN dict
    ELSE LET sel == Head(found)[1]
             old == IF sel \in DOMAIN dict THEN dict[sel] ELSE << >>
         IN  AccumulateRules(Tail(found),
                [x \in DOMAIN dict \cup {sel} |->
                    IF x = sel THEN old \o Head(found)[2] ELSE dict[x]])

\* the extract_css_rules of lines 7-22
extract_all_rules(css_content) ==
    AccumulateRules(FindAllRules(css_content, 0), [x \in {} |-> << >>])

\* lines 149-156, the second extract_css_rules: the matches of
\* \.([a-zA-Z0-9_-]+)\s*{([^}]+)} from p on, as <<class_name, properties>>
RECURSIVE FindClassRules(_, _)
FindClassRules(text, p) ==
    IF p >= Len(text) THEN << >>
    ELSE IF At(text, p) # "." THEN FindClassRules(text, p + 1)
    ELSE LET w == WordEnd(text, p + 1)
             b == SkipSpace(text, w)
             e == IF b < Len(text) /\ At(text, b) = "{" THEN IndexOf(text, "}", b + 1) ELSE -1
         IN  IF w = p + 1 \/ e < 0 \/ e = b + 1 THEN FindClassRules(text, p + 1)
             ELSE << << Slice(text, p + 1, w), Strip(Slice(text, b + 1, e)) >> >>
                  \o FindClassRules(text, e + 1)

\* lines 150-156: rules[class_name] = css_properties, as a function
RECURSIVE AssignRules(_, _)
AssignRules(found, dict) ==
    IF found = << >> THEN dict
    ELSE AssignRules(Tail(found),
            [x \in DOMAIN dict \cup {Head(found)[1]} |->
                IF x = Head(found)[1] THEN Head(found)[2] ELSE dict[x]])

\* lines 146-158: the extract_css_rules the module ends up with
extract_css_rules(content) ==
    AssignRules(FindClassRules(content, 0), [x \in {} |-> << >>])

\* lines 24-37: list.extend of each value; a string value extends the list
\* with its characters.  as_strings tells which kind the values are.  The
\* keys of either extract_css_rules carry no outer whitespace, so no two of
\* them strip to the same text.
merge_duplicate_selectors(rules_dict, as_strings) ==
    LET keep == {x \in DOMAIN rules_dict : Len(rules_dict[x]) > 0}
        cleaned == {Strip(x) : x \in keep}
        items(x) == IF as_strings
                    THEN [k \in DOMAIN rules_dict[x] |-> << rules_dict[x][k] >>]
                    ELSE rules_dict[x]
    IN  [c \in cleaned |-> items(CHOOSE x \in keep : Strip(x) = c)]

StartsWith(text, c) == text # << >> /\ Head(text) = c

Keyframes == << "@", "k", "e", "y", "f", "r", "a", "m", "e", "s" >>

\* lines 45-58
Category(selector) ==
    IF Contains(selector, Keyframes) THEN "keyframes"
    ELSE IF StartsWith(selector, ".") THEN "classes"
    ELSE IF StartsWith(selector, "#") THEN "ids"
    ELSE IF Contains(selector, << ":" >>) THEN "pseudo"
    ELSE IF Contains(selector, << "[" >>) THEN "attributes"
    ELSE IF Contains(selector, << ">" >>) \/ Contains(selector, << "+" >>)
            \/ Contains(selector, << "~" >>) THEN "combinators"
    ELSE "elements"

\* lines 39-62: the selectors of each category
organize_selectors(merged_selectors) ==
    [category \in {Category(x) : x \in DOMAIN merged_selectors} |->
        {x \in DOMAIN merged_selectors : Category(x) = category}]

\* lines 68-76
category_order ==
    << "keyframes", "elements", "classes", "ids", "pseudo", "attributes", "combinators" >>

CategoryName ==
    [keyframes |-> << "k", "e", "y", "f", "r", "a", "m", "e", "s" >>,
     elements |-> << "e", "l", "e", "m", "e", "n", "t", "s" >>,
     classes |-> << "c", "l", "a", "s", "s", "e", "s" >>,
     ids |-> << "i", "d", "s" >>,
     pseudo |-> << "p", "s", "e", "u", "d", "o" >>,
     attributes |-> << "a", "t", "t", "r", "i", "b", "u", "t", "e", "s" >>,
     combinators |-> << "c", "o", "m", "b", "i", "n", "a", "t", "o", "r", "s" >>]

\* lines 88-92: the parts of one rule
RuleParts(selector, declarations) ==
    LET sorted == SortedList(declarations)
    IN  << selector \o << " ", "{" >> >>
        \o [k \in DOMAIN sorted |-> << " ", " ", " ", " " >> \o sorted[k] \o << ";" >>]
        \o << << "}" >>, << >> >>

RECURSIVE SelectorParts(_, _)
SelectorParts(sorted_selectors, merged_selectors) ==
    IF sorted_selectors = << >> THEN << >>
    ELSE RuleParts(Head(sorted_selectors), merged_selectors[Head(sorted_selectors)])
         \o SelectorParts(Tail(sorted_selectors), merged_selectors)

\* lines 79-92: the parts of the categories from position c of category_order on
RECURSIVE CategoryParts(_, _, _)
CategoryParts(c, grouped_selectors, merged_selectors) ==
    IF c > Len(category_order) THEN << >>
    ELSE LET category == category_order[c]
         IN  (IF category \in DOMAIN grouped_selectors
              THEN << << "\n", "/", "*", " " >> \o ToUpper(CategoryName[category])
                      \o << " ", "*", "/" >> >>
                   \o SelectorParts(SortedSeq(grouped_selectors[category]), merged_selectors)
              ELSE << >>)
             \o CategoryParts(c + 1, grouped_selectors, merged_selectors)

\* "\n".join(parts)
RECURSIVE JoinLines(_)
JoinLines(parts) ==
    IF parts = << >> THEN << >>
    ELSE IF Len(parts) = 1 THEN parts[1]
    ELSE parts[1] \o << "\n" >> \o JoinLines(Tail(parts))

\* lines 64-94
generate_organized_css(grouped_selectors, merged_selectors) ==
    JoinLines(CategoryParts(1, grouped_selectors, merged_selectors))

\* lines 125-135: organized_css for a style block, with the extract_css_rules
\* that the name is bound to when organize_css_file runs (lines 146-158)
OrganizedCss(css_content) ==
    LET merged == merge_duplicate_selectors(extract_css_rules(css_content), TRUE)
    IN  generate_organized_css(organize_selectors(merged), merged)

\* lines 110-115: the style block of the rewritten file
WrittenStyle(organized_css) == << "\n" >> \o organized_css \o << "\n" >>

MaxOrgLen == 5
MaxRuns == 2

OrgAlphabet == {".", "a", "b", "{", "}", ";"}

\* ".btn { color: red; }"
StyleBtn ==
    << ".", "b", "t", "n", " ", "{", " ", "c", "o", "l", "o", "r", ":", " ", "r", "e", "d",
       ";", " ", "}" >>
\* "#id{z:1;a:2}\n.b{c:d}\np{e:f}"
StyleMany ==
    << "#", "i", "d", "{", "z", ":", "1", ";", "a", ":", "2", "}", "\n",
       ".", "b", "{", "c", ":", "d", "}", "\n", "p", "{", "e", ":", "f", "}" >>

StyleBlocks == TextsUpTo(OrgAlphabet, MaxOrgLen) \cup {StyleBtn, StyleMany}

OrgIdle ==
    /\ org_input = << >>
    /\ org_css = << >>
    /\ org_out = << >>
    /\ org_runs = -1

OrgBegin ==
    /\ org_input \in StyleBlocks
    /\ org_css = org_input
    /\ org_out = << >>
    /\ org_runs = 0

\* lines 121-138: organize_css_file
Organize ==
    /\ org_runs \in 0..(MaxRuns - 1)
    /\ org_out' = OrganizedCss(org_css)
    /\ org_css' = WrittenStyle(OrganizedCss(org_css))
    /\ org_runs' = org_runs + 1
    /\ UNCHANGED org_input
    /\ UNCHANGED <<split_vars, prune_vars>>

OrgNext == Organize

(***************************************************************************)
(* Specifications                                                          *)
(***************************************************************************)

SplitInit == SplitBegin /\ PruneIdle /\ OrgIdle

PruneInit == PruneBegin /\ SplitIdle /\ OrgIdle

OrgInit == OrgBegin /\ SplitIdle /\ PruneIdle

ScanInit == SplitInit \/ PruneInit

ScanNext == SplitNext \/ PruneNext

\* split_selectors alone
SplitSpec == SplitInit /\ [][SplitNext]_vars

\* the pruner script
PruneSpec == PruneInit /\ [][PruneNext]_vars

\* either scanner
ScanSpec == ScanInit /\ [][ScanNext]_vars

\* the organizer, run on its own output
OrgSpec == OrgInit /\ [][OrgNext]_vars

(***************************************************************************)
(* Vocabulary of the properties                                            *)
(***************************************************************************)

\* the source index of every character of the output so far, in output order
Emitted == Join(out_src)

\* the rules removed so far, in the order met
RemovedSpans == SelectSeq(rules, LAMBDA r : ~r.kept)

InRemovedRule(p) == \E k \in DOMAIN rules : ~rules[k].kept /\ rules[k].from <= p /\ p < rules[k].to

TimesEmitted(p) == Cardinality({k \in DOMAIN Emitted : Emitted[k] = p})

\* a is b with characters deleted
RECURSIVE IsSubsequence(_, _)
IsSubsequence(a, b) ==
    IF a = << >> THEN TRUE
    ELSE IF b = << >> THEN FALSE
    ELSE IF Head(a) = Head(b) THEN IsSubsequence(Tail(a), Tail(b))
    ELSE IsSubsequence(a, Tail(b))

EndsWith(a, suffix) ==
    Len(suffix) <= Len(a) /\ SubSeq(a, Len(a) - Len(suffix) + 1, Len(a)) = suffix

\* sel has a "." followed by a class name (an optional "-", then a letter or "_")
MentionsClass(sel) ==
    \E p \in 0..(Len(sel) - 1) :
        /\ At(sel, p) = "."
        /\ \/ p + 1 < Len(sel) /\ IsNameStart(At(sel, p + 1))
           \/ p + 2 < Len(sel) /\ At(sel, p + 1) = "-" /\ IsNameStart(At(sel, p + 2))

\* sel has "." followed by exactly the class name u
MentionsClassNamed(sel, u) ==
    \E p \in 0..(Len(sel) - 1) :
        /\ At(sel, p) = "."
        /\ Slice(sel, p + 1, p + 1 + Len(u)) = u
        /\ p + 1 + Len(u) < Len(sel) => ~IsNameChar(At(sel, p + 1 + Len(u)))

\* the text from "@" to the end of an at-rule: through ";" for the statement
\* form, through the brace matching its "{" for the block form
AtRuleEnd(a) ==
    IF a.stop >= n THEN n
    ELSE IF At(css_nocomments, a.stop) = ";" THEN a.stop + 1
    ELSE ScanBody(a.stop + 1, 1).k

(***************************************************************************)
(* Claims about the pruner                                                 *)
(***************************************************************************)

\* C1: every byte of the stylesheet outside a removed rule is emitted exactly
\* once, and when no rule is removed the pruned output has the original length.
C1_ByteAccounting ==
    pc = "done" =>
        /\ \A p \in 0..(Len(css_text) - 1) : ~InRemovedRule(p) => TimesEmitted(p) = 1
        /\ report.removed_rules = 0 => report.pruned_bytes = report.original_bytes

\* C2: the whole text of every at-rule, statement form or block form, is in
\* the pruned output unchanged, and no removed_details entry comes from it.
C2_AtRulesVerbatim ==
    pc = "done" =>
        \A a \in DOMAIN at_rules :
            /\ \A p \in at_rules[a].from..(AtRuleEnd(at_rules[a]) - 1) : TimesEmitted(p) = 1
            /\ \A k \in DOMAIN rules :
                  ~rules[k].kept =>
                      \/ rules[k].to <= at_rules[a].from
                      \/ rules[k].from >= AtRuleEnd(at_rules[a])

\* C3: a rule is kept iff none of its selectors has a class token or some
\* class token of one of its selectors is in used_classes; "#header" is kept
\* for every used_classes, ".btn, .old" with btn used is kept whole.
C3_KeepIff ==
    /\ \A k \in DOMAIN rules :
          rules[k].kept <=>
              \/ \A x \in DOMAIN rules[k].selectors : ~MentionsClass(rules[k].selectors[x])
              \/ \E x \in DOMAIN rules[k].selectors, u \in used_classes :
                    MentionsClassNamed(rules[k].selectors[x], u)
    /\ (pc = "done" /\ css_text = CssHeader) =>
          pruned_css = CssHeader /\ report.kept_rules = 1 /\ report.removed_details = << >>
    /\ (pc = "done" /\ css_text = CssMixed /\ ClassBtn \in used_classes) =>
          pruned_css = CssMixed /\ report.kept_rules = 1 /\ report.removed_details = << >>

C3_Witness ==
    /\ pc = "done" /\ css_text = CssMixed /\ used_classes = {ClassBtn}
    /\ Len(rules) = 1 /\ rules[1].kept /\ Len(rules[1].selectors) = 2

\* C5 as stated: a rule not terminated before the end of input, whether its
\* "{" or its closing brace is missing, is passed through and never removed:
\* the remainder from a rule with no "{" is emitted as it is, and a rule with
\* an unclosed body is kept, has no removed_details entry, and its text is
\* emitted up to the blanks before its "{".
C5_UnterminatedNeverRemoved ==
    pc = "done" =>
        /\ tail_from >= 0 => EndsWith(pruned_css, Slice(css_text, tail_from, Len(css_text)))
        /\ \A k \in DOMAIN rules :
              ~rules[k].closed =>
                  /\ rules[k].kept
                  /\ \A p \in rules[k].from..(n - 1) :
                        (p >= rules[k].brace \/ ~IsSpace(At(css_text, p))) => TimesEmitted(p) = 1

\* C5 amended: when no "{" is found before the end of input, the text from
\* the start of that rule to the end of the stylesheet ends the pruned output
\* unchanged, for every used_classes; no rule is segmented or removed in it.
C5_NoBraceTailVerbatim ==
    /\ tail_from >= 0 =>
          /\ pc \in {"write", "done"}
          /\ EndsWith(Join(out), Slice(css_text, tail_from, Len(css_text)))
          /\ \A k \in DOMAIN rules : rules[k].to <= tail_from
          /\ \A p \in tail_from..(Len(css_text) - 1) : TimesEmitted(p) = 1
    /\ (pc = "done" /\ tail_from >= 0) =>
          /\ EndsWith(pruned_css, Slice(css_text, tail_from, Len(css_text)))
          /\ Len(report.removed_details) = Len(RemovedSpans)

C5_Witness ==
    /\ pc = "done" /\ css_text = CssTail /\ used_classes = {}
    /\ tail_from = 4 /\ report.removed_rules = 1
    /\ pruned_css = Slice(CssTail, 4, Len(CssTail))

\* C6: each removed rule is absent from the output and has exactly one
\* removed_details entry, in source order, with its selector list and the
\* sorted duplicate-free set of its class tokens; removed_rules counts the
\* entries and kept rules have none.
C6_RemovalReport ==
    pc = "done" =>
        /\ Len(report.removed_details) = Len(RemovedSpans)
        /\ report.removed_rules = Len(report.removed_details)
        /\ report.kept_rules + report.removed_rules = Len(rules)
        /\ \A k \in DOMAIN RemovedSpans :
              LET r == RemovedSpans[k]
                  d == report.removed_details[k]
              IN  /\ d.selectors = split_selectors(Strip(Slice(css_text, r.from, r.brace)))
                  /\ \A x \in 1..(Len(d.class_tokens) - 1) :
                        StrLess(d.class_tokens[x], d.class_tokens[x + 1])
                  /\ Range(d.class_tokens) =
                        UNION {Range(FindClassTokens(d.selectors[x])) : x \in DOMAIN d.selectors}
                  /\ \A p \in r.from..(r.to - 1) : TimesEmitted(p) = 0
                  /\ k > 1 => RemovedSpans[k - 1].to <= r.from
        /\ (css_text = CssBtnOld /\ ClassBtn \in used_classes) =>
              /\ pruned_css = Slice(CssBtnOld, 0, 15)
              /\ report.removed_details =
                    << [selectors |-> << << ".", "o", "l", "d" >> >>,
                        class_tokens |-> << << "o", "l", "d" >> >>] >>
        /\ css_text = CssDup =>
              report.removed_details[1].class_tokens =
                  << << "-", "b", "1" >>, << "o", "l", "d" >>, << "x" >> >>

C6_Witness ==
    /\ pc = "done" /\ css_text = CssBtnOld /\ used_classes = {ClassBtn}
    /\ report.removed_rules = 1 /\ report.kept_rules = 1

\* C10: the pruned output is the stylesheet with characters deleted: every
\* emitted character is the source character at a strictly increasing
\* position, so pruned_bytes <= original_bytes, and blanks and comments
\* between rules are emitted from the original text.
C10_OnlyDeletes ==
    /\ Len(Emitted) = Len(Join(out))
    /\ \A k \in DOMAIN Emitted :
          /\ Emitted[k] < Len(css_text)
          /\ Join(out)[k] = At(css_text, Emitted[k])
          /\ k > 1 => Emitted[k - 1] < Emitted[k]
    /\ pc = "done" =>
          /\ IsSubsequence(pruned_css, css_text)
          /\ report.pruned_bytes <= report.original_bytes
          /\ report.bytes_saved_estimate >= 0
          /\ \A p \in 0..(n - 1) :
                ( /\ IsSpace(At(css_nocomments, p))
                  /\ \A k \in DOMAIN rules : p < rules[k].from \/ p >= rules[k].to
                  /\ \A a \in DOMAIN at_rules :
                        p < at_rules[a].from \/ p > at_rules[a].stop )
                => TimesEmitted(p) = 1

C10_Witness ==
    /\ pc = "done" /\ css_text = CssComments /\ used_classes = {}
    /\ report.removed_rules = 2
    /\ pruned_css = Slice(CssComments, 0, 5) \o Slice(CssComments, 11, 20)

(***************************************************************************)
(* Claims about the scanners                                               *)
(***************************************************************************)

\* the pieces of prelude between the commas that are outside strings and at
\* depth 0, read off a character-by-character lexical context
RECURSIVE Context(_, _)
Context(prelude, p) ==
    IF p = 0 THEN [quote |-> NoStr, escaped |-> FALSE, paren |-> 0, bracket |-> 0]
    ELSE LET c == Context(prelude, p - 1)
             ch == At(prelude, p - 1)
         IN  IF c.quote # NoStr THEN
                 IF c.escaped THEN [c EXCEPT !.escaped = FALSE]
                 ELSE IF ch = c.quote THEN [c EXCEPT !.quote = NoStr]
                 ELSE IF ch = "\\" THEN [c EXCEPT !.escaped = TRUE]
                 ELSE c
             ELSE IF ch \in {"\"", "'"} THEN [c EXCEPT !.quote = ch]
             ELSE IF ch = "(" THEN [c EXCEPT !.paren = c.paren + 1]
             ELSE IF ch = ")" THEN [c EXCEPT !.paren = IF c.paren > 0 THEN c.paren - 1 ELSE 0]
             ELSE IF ch = "[" THEN [c EXCEPT !.bracket = c.bracket + 1]
             ELSE IF ch = "]" THEN [c EXCEPT !.bracket = IF c.bracket > 0 THEN c.bracket - 1 ELSE 0]
             ELSE c

TopLevelComma(prelude, p) ==
    /\ At(prelude, p) = ","
    /\ Context(prelude, p) = [quote |-> NoStr, escaped |-> FALSE, paren |-> 0, bracket |-> 0]

RECURSIVE PiecesFrom(_, _)
PiecesFrom(prelude, from) ==
    LET cuts == {p \in from..(Len(prelude) - 1) : TopLevelComma(prelude, p)}
    IN  IF cuts = {} THEN << Slice(prelude, from, Len(prelude)) >>
        ELSE LET cut == CHOOSE p \in cuts : \A q \in cuts : p <= q
             IN  << Slice(prelude, from, cut) >> \o PiecesFrom(prelude, cut + 1)

TrimmedPieces(prelude) ==
    LET pieces == PiecesFrom(prelude, 0)
    IN  SelectSeq([k \in DOMAIN pieces |-> Strip(pieces[k])], LAMBDA x : x # << >>)

\* C4: split_selectors returns, in source order and without deduplication,
\* the non-empty trimmed pieces between the commas outside strings at
\* parenthesis and bracket depth 0.
C4_SplitAtTopLevelCommas ==
    sp_pc = "done" =>
        /\ sp_result = TrimmedPieces(sp_prelude)
        /\ sp_prelude = PreludeABC => sp_result = << << "a" >>, << "b" >>, << "c" >> >>
        /\ sp_prelude = PreludeNot =>
              sp_result = << Slice(PreludeNot, 0, 10), << "c" >> >>
        /\ sp_prelude = PreludeAttr =>
              sp_result = << Slice(PreludeAttr, 0, 11), << "b" >> >>

C4_Witness ==
    /\ sp_pc = "done" /\ sp_prelude = PreludeAttr
    /\ Len(sp_result) = 2 /\ sp_result[2] = << "b" >>

\* C9: every iteration of the segmentation loop strictly increases i or
\* leaves the loop, and i never exceeds the text length; every iteration of
\* split_selectors strictly increases its index, which ends at most one past
\* the prelude (a trailing backslash in a string), so both loops end within
\* as many iterations as the text has characters.
C9_ScannersProgress ==
    [][ /\ i' <= Len(css_nocomments')
        /\ sp'.i <= Len(sp_prelude') + 1
        /\ (pc = "loop" /\ pc' = "loop") => i' > i
        /\ (pc = "loop" /\ pc' # "loop") => (pc' = "write" \/ ~(i < n))
        /\ (sp_pc = "loop" /\ sp_pc' = "loop") => sp'.i > sp.i
        /\ (sp_pc = "loop" /\ sp_pc' # "loop") => ~(sp.i < Len(sp_prelude)) ]_vars

C9_Witness ==
    /\ pc = "done" /\ css_text = << "@", "a", " ", "}" >>
    /\ i = n /\ Len(at_rules) = 1 /\ pruned_css = css_text

(***************************************************************************)
(* Claims about the organizer                                              *)
(***************************************************************************)

\* the pipeline of lines 125-135 with the extract_css_rules of lines 7-22
GenericOrganizedCss(css_content) ==
    LET merged == merge_duplicate_selectors(extract_all_rules(css_content), FALSE)
    IN  generate_organized_css(organize_selectors(merged), merged)

\* "\n/* CLASSES */\n.btn {\n    color: red;\n}\n"
StyleBtnOrganized ==
    << "\n", "/", "*", " ", "C", "L", "A", "S", "S", "E", "S", " ", "*", "/", "\n",
       ".", "b", "t", "n", " ", "{", "\n",
       " ", " ", " ", " ", "c", "o", "l", "o", "r", ":", " ", "r", "e", "d", ";", "\n",
       "}", "\n" >>

\* C7: organize_css_file run on its own output leaves it byte-identical:
\* from the second run on, the organized CSS and the style block written are
\* those of the first run.
C7_OrganizerIdempotent ==
    org_runs >= 2 =>
        /\ org_out = OrganizedCss(org_input)
        /\ org_css = WrittenStyle(OrganizedCss(org_input))

\* C8: organize_css_file emits every source selector, in the bucket of its
\* shape, with the ";"-separated declarations of all rules with that selector,
\* categories in the fixed order, selectors and declarations sorted;
\* ".btn { color: red; }" comes out under CLASSES as ".btn" with "color: red".
C8_OrganizerContent ==
    org_runs = 1 =>
        /\ org_out = GenericOrganizedCss(org_input)
        /\ org_input = StyleBtn => org_out = StyleBtnOrganized

====
